---- MODULE Spec2Model ----
(***************************************************************************)
(* A model of DoD_Cost_Basis_Calculator.py: the per-row loop of main and   *)
(* calculate_security_price with its two trading-calendar searches.        *)
(*                                                                         *)
(* Dates are the integers 0..MaxDate, standing for date.min..date.max: a   *)
(* date +/- timedelta that leaves the range raises OverflowError.  Day 0   *)
(* is a Thursday.  Prices are integers in units of 10^-PriceScale; float   *)
(* arithmetic is taken as exact decimal arithmetic.  Python's None is the  *)
(* value None.  The NYSE calendar is a fixed but unknown function of the   *)
(* date: nyse records the answers it has given so far and every later      *)
(* answer for the same date repeats the recorded one.                      *)
(***************************************************************************)
EXTENDS Integers, Sequences, FiniteSets, TLC

\* ---------------------------------------------------------------- bounds
MaxDate == 5
MaxRows == 1
MaxPrecision == 1
PriceScale == 2

\* ------------------------------------------------------------- constants
None == -1

Dates == 0..MaxDate
Precisions == 0..MaxPrecision
PriceValues == {40, 140}

\* One daily bar of the price-data provider (High, Low, Close columns).
Bars == {b \in [High : PriceValues, Low : PriceValues, Close : PriceValues] :
            b.Low <= b.Close /\ b.Close <= b.High}

\* What security.history returns for a one-day range: no row or one row.
Histories == {<<>>} \cup {<<b>> : b \in Bars}

\* A Type cell that is not text (an empty cell is read as a float NaN).
EmptyCell == "<float nan>"
TypeTexts == {"Mutual Fund", "Stock"}

Number(h) == [kind |-> "number", halves |-> h]
TextShares == [kind |-> "text", halves |-> 0]

\* The rows a sheet may hold: Shares counts half shares.
RowKinds ==
    { [Ticker |-> "VFINX", Type |-> "Mutual Fund", Shares |-> Number(3)],
      [Ticker |-> "AAPL", Type |-> "Stock", Shares |-> Number(3)],
      [Ticker |-> "BRK", Type |-> EmptyCell, Shares |-> Number(3)],
      [Ticker |-> "IBM", Type |-> "Stock", Shares |-> TextShares] }

NoFault == "no fault"
CalendarFault == "calendar lookup failed"
PriceDataFault == "price data request failed"
AttributeError == "'float' object has no attribute 'lower'"
OverflowError == "date value out of range"
TypeError == "unsupported operand type(s) for *: 'float' and 'str'"
ValueError == "'Note' is not in list"

\* ---------------------------------------------------------- pure helpers
RECURSIVE Pow10(_)
Pow10(n) == IF n <= 0 THEN 1 ELSE 10 * Pow10(n - 1)

\* str.lower on the texts of the model.
Lower(s) ==
    CASE s = "Mutual Fund" -> "mutual fund"
      [] s = "Stock" -> "stock"
      [] OTHER -> s

\* is_mutual_fund without the lower(): a capitalised Type is no mutual fund.
is_mutual_fundCaseSensitive(ticker_type) == ticker_type = "mutual fund"

is_mutual_fund(ticker_type) == Lower(ticker_type) = "mutual fund"

weekday(d) == (d + 3) % 7

\* round(num / den, p) of a value given in price units, half to even.
RoundRat(num, den, p) ==
    LET unit == Pow10(PriceScale - p)
        D == den * unit
        q == num \div D
        r == num % D
    IN  IF 2 * r < D THEN q * unit
        ELSE IF 2 * r > D THEN (q + 1) * unit
        ELSE IF q % 2 = 0 THEN q * unit ELSE (q + 1) * unit

Round(x, p) == RoundRat(x, 1, p)

\* --------------------------------------------------------- result records
\* The dictionary every return of calculate_security_price builds: the
\* price, the note and the nine detail fields, all None but those given.
Result(price, note) ==
    [Price |-> price, Note |-> note, Close |-> None, High |-> None, Low |-> None,
     Friday_High |-> None, Friday_Low |-> None, Friday_Close |-> None,
     Monday_High |-> None, Monday_Low |-> None, Monday_Close |-> None]

NoDataNote == <<"No data available for this date">>

\* The range note replaced by a copy of the single-date note.
NoDataRangeNoteCopied == <<"No data available for this date">>

NoDataRangeNote == <<"No data available for this date range">>

ErrorNote(ticker, e) == <<"Error processing ", ticker, ": ", e>>

ErrorResult(ticker, e) == Result(None, ErrorNote(ticker, e))

\* A no-data result that reports a price of 0 instead of None.
NoDataResultZeroPrice(note) == Result(0, note)

NoDataResult(note) == Result(None, note)

MutualFundNote(wk) ==
    <<"Mutual Fund - Using ", IF wk THEN "Friday" ELSE "date of death", " closing price">>

MutualFundResult(hist, p, wk) ==
    LET close_price == Round(hist[1].Close, p)
    IN  [Result(close_price, MutualFundNote(wk)) EXCEPT
            !.Close = close_price,
            !.Friday_Close = IF wk THEN close_price ELSE None]

WeekendNote == <<"Weekend/Holiday price - Average of Previous/Next Business Day">>

\* A weekend/holiday result that fills Close as well.
WeekendResultWithClose(fh, mh, p) ==
    [Result(RoundRat(Round(fh[1].High, p) + Round(fh[1].Low, p)
                     + Round(mh[1].High, p) + Round(mh[1].Low, p), 4, p), WeekendNote) EXCEPT
        !.Close = Round(mh[1].Close, p),
        !.Friday_High = Round(fh[1].High, p), !.Friday_Low = Round(fh[1].Low, p),
        !.Friday_Close = Round(fh[1].Close, p), !.Monday_High = Round(mh[1].High, p),
        !.Monday_Low = Round(mh[1].Low, p), !.Monday_Close = Round(mh[1].Close, p)]

WeekendResult(friday_hist, monday_hist, p) ==
    LET friday_high == Round(friday_hist[1].High, p)
        friday_low == Round(friday_hist[1].Low, p)
        friday_close == Round(friday_hist[1].Close, p)
        monday_high == Round(monday_hist[1].High, p)
        monday_low == Round(monday_hist[1].Low, p)
        monday_close == Round(monday_hist[1].Close, p)
        \* the two averages, kept as twice their value
        friday_avg2 == friday_high + friday_low
        monday_avg2 == monday_high + monday_low
        final_price == RoundRat(friday_avg2 + monday_avg2, 4, p)
    IN  [Result(final_price, WeekendNote) EXCEPT
            !.Friday_High = friday_high, !.Friday_Low = friday_low,
            !.Friday_Close = friday_close, !.Monday_High = monday_high,
            !.Monday_Low = monday_low, !.Monday_Close = monday_close]

RegularNote == <<"Regular Trading Day High/Low Average">>

\* A trading-day result that averages the raw extrema and rounds once.
RegularResultAverageFirst(h, p) ==
    [Result(RoundRat(h[1].High + h[1].Low, 2, p), RegularNote) EXCEPT
        !.Close = Round(h[1].Close, p), !.High = Round(h[1].High, p),
        !.Low = Round(h[1].Low, p)]

RegularResult(hist, p) ==
    LET high_price == Round(hist[1].High, p)
        low_price == Round(hist[1].Low, p)
        close_price == Round(hist[1].Close, p)
        final_price == RoundRat(high_price + low_price, 2, p)
    IN  [Result(final_price, RegularNote) EXCEPT
            !.Close = close_price, !.High = high_price, !.Low = low_price]

\* Python's truth value of the price in `... if price else None`.
Truthy(price) == price # None /\ price # 0

\* round(price * row['Shares'], decimal_places) for a numeric Shares.
TotalValue(price, shares, p) == RoundRat(price * shares.halves, 2, p)

\* A narrower except clause: only the collaborators' faults are caught.
CatchesCollaboratorFaultsOnly(e) == e \in {CalendarFault, PriceDataFault}

\* `except Exception` of calculate_security_price: every fault is caught.
Catches(e) == TRUE

\* ------------------------------------------------------------------ state
VARIABLES
    date_of_death,          \* the Date of Death input
    decimal_places,         \* the rounding precision input
    nyse,                   \* the calendar's answers so far, per date
    df,                     \* the rows iterrows has yielded so far
    results,                \* main's results list
    error,                  \* the text st.error has shown, or <<>>
    pc,                     \* where main or the current call stands
    is_weekend_or_holiday,  \* locals of calculate_security_price
    prev_day, next_day,     \* loop variables of the two calendar searches
    pricing_date, friday, monday,
    hist, friday_hist, monday_hist,  \* what history returned in this call
    queries,                \* the dates history was asked for in this call
    fault,                  \* the fault raised inside this call, or NoFault
    result_dict             \* what the call returned

vars == <<date_of_death, decimal_places, nyse, df, results, error, pc,
          is_weekend_or_holiday, prev_day, next_day, pricing_date, friday,
          monday, hist, friday_hist, monday_hist, queries, fault, result_dict>>

inputs == <<date_of_death, decimal_places>>

NoResult == Result(None, <<>>)

\* The current row: main passes its Ticker and Type to the call.
row == df[Len(df)]

\* The places inside calculate_security_price.
CallPcs == {"classify", "prev_loop", "next_loop", "fetch", "fetch_friday", "fetch_monday"}

\* The answers valid_days may give for date d: the recorded one, or either.
CalendarAnswers(d) ==
    IF nyse[d] = "unknown" THEN {TRUE, FALSE} ELSE {nyse[d] = "open"}

Learn(d, open) == [nyse EXCEPT ![d] = IF open THEN "open" ELSE "closed"]

InRange(d) == d \in Dates

Init ==
    /\ date_of_death \in Dates
    /\ decimal_places \in Precisions
    /\ nyse = [d \in Dates |-> "unknown"]
    /\ df = <<>>
    /\ results = <<>>
    /\ error = <<>>
    /\ pc = "loop"
    /\ is_weekend_or_holiday = FALSE
    /\ prev_day = None /\ next_day = None
    /\ pricing_date = None /\ friday = None /\ monday = None
    /\ hist = <<>> /\ friday_hist = <<>> /\ monday_hist = <<>>
    /\ queries = <<>>
    /\ fault = NoFault
    /\ result_dict = NoResult

\* ---------------------------------------------------------------- actions
locals == <<is_weekend_or_holiday, prev_day, next_day, pricing_date, friday,
            monday, hist, friday_hist, monday_hist, queries>>

\* A fault e raised inside the try block of calculate_security_price: the
\* except clause turns it into the error result, which the call returns.
Raise(e) ==
    /\ fault' = e
    /\ IF Catches(e)
       THEN /\ result_dict' = ErrorResult(row.Ticker, e)
            /\ pc' = "row"
            /\ error' = error
       ELSE /\ result_dict' = result_dict
            /\ pc' = "failed"
            /\ error' = <<"An error occurred: ", e>>

Goto(p) ==
    /\ pc' = p
    /\ UNCHANGED <<fault, result_dict, error>>

\* A search that starts at the date itself.
PrevStartSameDay(date) == date

PrevStart(date) == date - 1

\* A loop body that does not move prev_day.
PrevAdvanceStuck(d) == d

PrevAdvance(d) == d - 1

NextStart(date) == date + 1

NextAdvance(d) == d + 1

\* `for _, row in df.iterrows()` yields one more row, and main calls
\* calculate_security_price with it.
NextRow ==
    /\ pc = "loop"
    /\ Len(df) < MaxRows
    /\ \E r \in RowKinds : df' = Append(df, r)
    /\ pc' = "classify"
    /\ UNCHANGED <<inputs, nyse, results, error, locals, fault, result_dict>>

\* The rows are exhausted: main builds the results table and moves its Note
\* column last, which fails on a table without columns.
EndOfRows ==
    /\ pc = "loop"
    /\ IF results = <<>>
       THEN pc' = "failed" /\ error' = <<"An error occurred: ", ValueError>>
       ELSE pc' = "done" /\ error' = error
    /\ UNCHANGED <<inputs, nyse, df, results, locals, fault, result_dict>>

\* Lines 35-44 and 80-84: the date is classified (the calendar is asked only
\* for a weekday), the Type is lower-cased, and the branch is entered up to
\* its first collaborator call.
Classify ==
    /\ pc = "classify"
    /\ \E open \in (IF weekday(date_of_death) >= 5 THEN {FALSE}
                    ELSE CalendarAnswers(date_of_death)) :
         LET wk == weekday(date_of_death) >= 5 \/ ~open
         IN  /\ nyse' = IF weekday(date_of_death) >= 5 THEN nyse
                        ELSE Learn(date_of_death, open)
             /\ is_weekend_or_holiday' = wk
             /\ IF row.Type = EmptyCell
                THEN Raise(AttributeError) /\ UNCHANGED <<prev_day, pricing_date>>
                ELSE IF wk
                THEN IF InRange(PrevStart(date_of_death))
                     THEN /\ prev_day' = PrevStart(date_of_death)
                          /\ Goto("prev_loop")
                          /\ UNCHANGED pricing_date
                     ELSE Raise(OverflowError) /\ UNCHANGED <<prev_day, pricing_date>>
                ELSE /\ pricing_date' = date_of_death
                     /\ Goto("fetch")
                     /\ UNCHANGED prev_day
    /\ UNCHANGED <<inputs, df, results, next_day, friday, monday, hist, friday_hist,
                   monday_hist, queries>>

\* One test of the while loop of get_previous_business_day: return prev_day
\* if the calendar lists it, else step one day back.
PrevStep ==
    /\ pc = "prev_loop"
    /\ \E open \in CalendarAnswers(prev_day) :
         /\ nyse' = Learn(prev_day, open)
         /\ IF open
            THEN /\ prev_day' = None
                 /\ IF is_mutual_fund(row.Type)
                    THEN /\ pricing_date' = prev_day
                         /\ Goto("fetch")
                         /\ UNCHANGED <<friday, next_day>>
                    ELSE /\ friday' = prev_day
                         /\ pricing_date' = pricing_date
                         /\ IF InRange(NextStart(date_of_death))
                            THEN next_day' = NextStart(date_of_death) /\ Goto("next_loop")
                            ELSE Raise(OverflowError) /\ next_day' = next_day
            ELSE /\ UNCHANGED <<pricing_date, friday, next_day>>
                 /\ IF InRange(PrevAdvance(prev_day))
                    THEN prev_day' = PrevAdvance(prev_day) /\ Goto("prev_loop")
                    ELSE Raise(OverflowError) /\ prev_day' = prev_day
    /\ UNCHANGED <<inputs, df, results, is_weekend_or_holiday, monday, hist, friday_hist,
                   monday_hist, queries>>

\* One test of the while loop of get_next_business_day.
NextStep ==
    /\ pc = "next_loop"
    /\ \E open \in CalendarAnswers(next_day) :
         /\ nyse' = Learn(next_day, open)
         /\ IF open
            THEN /\ monday' = next_day
                 /\ next_day' = None
                 /\ Goto("fetch_friday")
            ELSE /\ monday' = monday
                 /\ IF InRange(NextAdvance(next_day))
                    THEN next_day' = NextAdvance(next_day) /\ Goto("next_loop")
                    ELSE Raise(OverflowError) /\ next_day' = next_day
    /\ UNCHANGED <<inputs, df, results, is_weekend_or_holiday, prev_day, pricing_date,
                   friday, hist, friday_hist, monday_hist, queries>>

\* Lines 47-78 (mutual fund) and 132-168 (Stock/ETF on a trading day): the
\* one bar is requested and reduced to the result.
Fetch ==
    /\ pc = "fetch"
    /\ \E h \in Histories :
         /\ hist' = h
         /\ queries' = Append(queries, pricing_date)
         /\ result_dict' =
              IF h = <<>> THEN NoDataResult(NoDataNote)
              ELSE IF is_mutual_fund(row.Type)
                   THEN MutualFundResult(h, decimal_places, is_weekend_or_holiday)
                   ELSE RegularResult(h, decimal_places)
    /\ pc' = "row"
    /\ UNCHANGED <<inputs, nyse, df, results, error, is_weekend_or_holiday, prev_day,
                   next_day, pricing_date, friday, monday, friday_hist, monday_hist, fault>>

\* Line 86: the prior trading day's bar is requested.
FetchFriday ==
    /\ pc = "fetch_friday"
    /\ \E h \in Histories : friday_hist' = h
    /\ queries' = Append(queries, friday)
    /\ pc' = "fetch_monday"
    /\ UNCHANGED <<inputs, nyse, df, results, error, is_weekend_or_holiday, prev_day,
                   next_day, pricing_date, friday, monday, hist, monday_hist, fault,
                   result_dict>>

\* Lines 87-129: the next trading day's bar is requested, and the two bars
\* are reduced to the result.
FetchMonday ==
    /\ pc = "fetch_monday"
    /\ \E h \in Histories :
         /\ monday_hist' = h
         /\ queries' = Append(queries, monday)
         /\ result_dict' =
              IF friday_hist = <<>> \/ h = <<>>
              THEN NoDataResult(NoDataRangeNote)
              ELSE WeekendResult(friday_hist, h, decimal_places)
    /\ pc' = "row"
    /\ UNCHANGED <<inputs, nyse, df, results, error, is_weekend_or_holiday, prev_day,
                   next_day, pricing_date, friday, monday, hist, friday_hist, fault>>

\* yf.Ticker (line 35) raises.
TickerRaises ==
    /\ pc = "classify"
    /\ Raise(PriceDataFault)
    /\ UNCHANGED <<inputs, nyse, df, results, locals>>

\* mcal.get_calendar or valid_days raises (lines 16, 18, 25, 27, 36, 37).
CalendarRaises ==
    /\ pc \in {"classify", "prev_loop", "next_loop"}
    /\ Raise(CalendarFault)
    /\ UNCHANGED <<inputs, nyse, df, results, locals>>

\* security.history raises (lines 47, 86, 87, 132); the date was asked for.
HistoryRaises ==
    /\ pc \in {"fetch", "fetch_friday", "fetch_monday"}
    /\ queries' = Append(queries, CASE pc = "fetch" -> pricing_date
                                    [] pc = "fetch_friday" -> friday
                                    [] OTHER -> monday)
    /\ Raise(PriceDataFault)
    /\ UNCHANGED <<inputs, nyse, df, results, is_weekend_or_holiday, prev_day, next_day,
                   pricing_date, friday, monday, hist, friday_hist, monday_hist>>

\* The row main appends (lines 217-238); a key main does not set is None.
ResultRow(r, rd, date, p) ==
    LET price == rd.Price
        mf == is_mutual_fund(r.Type)
        wkd == ~mf /\ rd.Friday_High # None
        reg == ~mf /\ rd.Friday_High = None
    IN  [Date |-> date, Ticker |-> r.Ticker, Shares |-> r.Shares, Price |-> price,
         Total_Value |-> IF Truthy(price) THEN TotalValue(price, r.Shares, p) ELSE None,
         Closing_Price |-> IF mf THEN rd.Close ELSE None,
         Friday_High |-> IF wkd THEN rd.Friday_High ELSE None,
         Friday_Low |-> IF wkd THEN rd.Friday_Low ELSE None,
         Monday_High |-> IF wkd THEN rd.Monday_High ELSE None,
         Monday_Low |-> IF wkd THEN rd.Monday_Low ELSE None,
         High |-> IF reg THEN rd.High ELSE None,
         Low |-> IF reg THEN rd.Low ELSE None,
         Note |-> rd.Note]

\* Lines 215-239, after the call returned: the row is built and appended.
\* price * Shares raises TypeError for a text Shares, and is_mutual_fund
\* raises AttributeError for a Type that is not text; main's own except
\* clause (line 265) then ends the run.
BuildRow ==
    /\ pc = "row"
    /\ IF Truthy(result_dict.Price) /\ row.Shares.kind = "text"
       THEN /\ pc' = "failed"
            /\ error' = <<"An error occurred: ", TypeError>>
            /\ results' = results
       ELSE IF row.Type = EmptyCell
       THEN /\ pc' = "failed"
            /\ error' = <<"An error occurred: ", AttributeError>>
            /\ results' = results
       ELSE /\ pc' = "loop"
            /\ error' = error
            /\ results' = Append(results,
                    ResultRow(row, result_dict, date_of_death, decimal_places))
    /\ is_weekend_or_holiday' = FALSE
    /\ prev_day' = None /\ next_day' = None
    /\ pricing_date' = None /\ friday' = None /\ monday' = None
    /\ hist' = <<>> /\ friday_hist' = <<>> /\ monday_hist' = <<>>
    /\ queries' = <<>>
    /\ fault' = NoFault
    /\ result_dict' = NoResult
    /\ UNCHANGED <<inputs, nyse, df>>

Next ==
    \/ NextRow
    \/ EndOfRows
    \/ Classify
    \/ PrevStep
    \/ NextStep
    \/ Fetch
    \/ FetchFriday
    \/ FetchMonday
    \/ TickerRaises
    \/ CalendarRaises
    \/ HistoryRaises
    \/ BuildRow

Spec == Init /\ [][Next]_vars

\* The two searches run in one thread that nothing preempts: a loop test
\* that can be made is made.
LiveSpec == Spec /\ WF_vars(PrevStep) /\ WF_vars(NextStep)

\* ----------------------------------------------------------------- claims
\* The call has returned to main and its result is not yet consumed.
Returned == pc = "row"

MutualFundRow == row.Type \in {"Mutual Fund", "mutual fund"}

StockRow == row.Type \in {"Stock", "ETF"}

\* The calendar lists the target date and it is a weekday.
TargetIsTradingDay == weekday(date_of_death) < 5 /\ nyse[date_of_death] = "open"

\* x is the latest day the calendar lists strictly before date d.
LatestOpenBefore(x, d) ==
    /\ x \in Dates /\ x < d
    /\ nyse[x] = "open"
    /\ \A y \in (x + 1)..(d - 1) : nyse[y] = "closed"

\* x is the earliest day the calendar lists strictly after date d.
EarliestOpenAfter(x, d) ==
    /\ x \in Dates /\ x > d
    /\ nyse[x] = "open"
    /\ \A y \in (d + 1)..(x - 1) : nyse[y] = "closed"

DetailFields == {"Close", "High", "Low", "Friday_High", "Friday_Low", "Friday_Close",
                 "Monday_High", "Monday_Low", "Monday_Close"}

\* Exactly the detail fields in S are populated in result rd.
Populated(rd, S) == \A f \in DetailFields : (rd[f] # None) <=> (f \in S)

MutualFundVariant == {"Close"}

SameDayVariant == {"High", "Low", "Close"}

WeekendVariant == {"Friday_High", "Friday_Low", "Friday_Close",
                   "Monday_High", "Monday_Low", "Monday_Close"}

\* A step taken inside the call stays inside it or returns to main.
StaysInCallOrReturns == (pc \in CallPcs) => (pc' \in CallPcs \/ pc' = "row")

\* C1: calculate_security_price never raises: from any place inside the call
\* the next step stays inside it or returns to main with a result; and when a
\* fault occurred, the returned result has no price and a note made of the
\* ticker and the fault's description.
C1_NeverRaises ==
    /\ [](Returned =>
            /\ result_dict # NoResult
            /\ fault # NoFault =>
                 /\ result_dict.Price = None
                 /\ result_dict.Note = <<"Error processing ", row.Ticker, ": ", fault>>)
    /\ [][StaysInCallOrReturns]_vars

\* C1 witness: a call returned after a fault raised inside it.
C1_Witness == Returned /\ fault = OverflowError /\ result_dict.Price = None

\* C2: when main has ended, it has appended one result row per input row.
C2_EveryRowYieldsAResult == pc \in {"done", "failed"} => Len(results) = Len(df)

\* C3: a returned result has no price exactly when its note is one of the two
\* no-data notes or an error note.
C3_PriceAbsentIffNote ==
    Returned =>
        ((result_dict.Price = None) <=>
            \/ result_dict.Note = <<"No data available for this date">>
            \/ result_dict.Note = <<"No data available for this date range">>
            \/ (Len(result_dict.Note) = 4 /\ result_dict.Note[1] = "Error processing "))

\* C3 witness: a result without price that carries a no-data note.
C3_Witness ==
    Returned /\ result_dict.Price = None /\ fault = NoFault /\ Len(queries) = 2

\* C4 as stated: every returned result has exactly the detail fields of the
\* branch taken populated.
C4_ExactlyOneVariant ==
    Returned /\ row.Type # EmptyCell =>
        Populated(result_dict,
                  IF MutualFundRow THEN MutualFundVariant
                  ELSE IF is_weekend_or_holiday THEN WeekendVariant
                  ELSE SameDayVariant)

\* C4 amended: a returned result with a price has the detail fields of the
\* branch taken populated and no other, except that a mutual-fund result for
\* a weekend or holiday also repeats its close in Friday_Close; a returned
\* result without a price has no detail field populated.
C4_VariantOfPricedResult ==
    Returned =>
        IF result_dict.Price = None THEN Populated(result_dict, {})
        ELSE IF MutualFundRow
        THEN /\ Populated(result_dict,
                    IF is_weekend_or_holiday THEN {"Close", "Friday_Close"} ELSE {"Close"})
             /\ is_weekend_or_holiday => result_dict.Friday_Close = result_dict.Close
        ELSE IF is_weekend_or_holiday THEN Populated(result_dict, WeekendVariant)
        ELSE Populated(result_dict, SameDayVariant)

\* C4 witness: a mutual-fund result for a weekend or holiday, which carries
\* its close in Close and in Friday_Close.
C4_Witness ==
    Returned /\ MutualFundRow /\ result_dict.Friday_Close # None

\* C5: for a Stock/ETF row whose bars are all present, a trading-day target
\* takes the single-day branch and the price is the rounded mean of the
\* rounded high and low; any other target takes the weekend/holiday branch
\* and the price is the rounded mean of the two days' means of rounded
\* extrema.
C5_RoundBeforeAverage ==
    Returned /\ StockRow /\ fault = NoFault =>
        IF TargetIsTradingDay
        THEN /\ queries = <<date_of_death>>
             /\ hist # <<>> =>
                  result_dict.Price =
                      RoundRat(Round(hist[1].High, decimal_places)
                               + Round(hist[1].Low, decimal_places), 2, decimal_places)
        ELSE /\ queries = <<friday, monday>>
             /\ friday_hist # <<>> /\ monday_hist # <<>> =>
                  result_dict.Price =
                      RoundRat(Round(friday_hist[1].High, decimal_places)
                               + Round(friday_hist[1].Low, decimal_places)
                               + Round(monday_hist[1].High, decimal_places)
                               + Round(monday_hist[1].Low, decimal_places), 4, decimal_places)

\* C5 witness: a trading-day result whose price differs from the rounded mean
\* of the raw extrema.
C5_Witness ==
    /\ Returned /\ StockRow /\ fault = NoFault /\ TargetIsTradingDay /\ hist # <<>>
    /\ result_dict.Price # RoundRat(hist[1].High + hist[1].Low, 2, decimal_places)

C7_NearestTradingDays ==
    /\ friday # None => LatestOpenBefore(friday, date_of_death)
    /\ monday # None => EarliestOpenAfter(monday, date_of_death)
    /\ pricing_date # None /\ is_weekend_or_holiday =>
         LatestOpenBefore(pricing_date, date_of_death)
    /\ pc \in {"fetch_friday", "fetch_monday"} =>
         friday < date_of_death /\ date_of_death < monday

\* C7 witness: both searches crossed closed days before they returned.
C7_Witness ==
    /\ pc = "fetch_friday"
    /\ friday < date_of_death - 1
    /\ monday > date_of_death + 1

\* C8: every appended row has Total Value = round(price * shares, p) when its
\* price is present, a price of 0 included, and no Total Value otherwise.
C8_TotalValue ==
    \A i \in DOMAIN results :
        LET r == results[i]
        IN  IF r.Price = None THEN r.Total_Value = None
            ELSE r.Total_Value = RoundRat(r.Price * r.Shares.halves, 2, decimal_places)

\* C9: when no fault was raised and a requested bar is missing, the result
\* has no price and the fixed note: the single-date note after one request,
\* the date-range note after the two requests of the weekend/holiday branch.
C9_NoDataNotes ==
    Returned /\ fault = NoFault =>
        /\ Len(queries) = 1 /\ hist = <<>> =>
             /\ result_dict.Price = None
             /\ result_dict.Note = <<"No data available for this date">>
        /\ Len(queries) = 2 /\ (friday_hist = <<>> \/ monday_hist = <<>>) =>
             /\ result_dict.Price = None
             /\ result_dict.Note = <<"No data available for this date range">>

\* C9 witness: the weekend/holiday branch with only the next day's bar missing.
C9_Witness ==
    /\ Returned /\ fault = NoFault /\ Len(queries) = 2
    /\ friday_hist # <<>> /\ monday_hist = <<>>

\* C10: each of the two day-by-day searches, once entered, is eventually left.
C10_SearchesTerminate ==
    /\ (pc = "prev_loop") ~> (pc # "prev_loop")
    /\ (pc = "next_loop") ~> (pc # "next_loop")

\* C10 witness: the backward search inside a run of closed days.
C10_Witness ==
    /\ pc = "prev_loop"
    /\ prev_day < date_of_death - 1
    /\ \A y \in (prev_day + 1)..(date_of_death - 1) : nyse[y] = "closed"

====
